---- MODULE Spec2Model ----
(***************************************************************************)
(* n-Queens: the level-bounded backtracking enumerator nqueens_by_level    *)
(* (nqueens.cpp) and the MPI master/worker protocol built on it            *)
(* (mpi_nqueens.cpp).                                                      *)
(*                                                                         *)
(* Two specifications share the module:                                    *)
(*   SpecEnum  one call of nqueens_by_level, one loop iteration per step,  *)
(*             with the sequential driver nqueens(n) around it;            *)
(*   Spec      master_main and W copies of worker_main exchanging MPI      *)
(*             messages; the enumerator runs inside their steps.           *)
(***************************************************************************)
EXTENDS Integers, Sequences, FiniteSets, Bags, TLC

\* ------------------------------------------------------------------ bounds
MaxN == 4          \* largest board size n explored
MaxSeqN == 8       \* largest n the sequential driver nqueens(n) is run on
MaxW == 2          \* largest number of worker ranks explored
MaxUnits == 6      \* most partial solutions the master sends out in one run
MaxUnderrun == 1   \* cells in front of index[0] that can be read without a fault
\* the board size next after MaxN: the smallest runs in which one work unit
\* has two solutions are those of n = 5
MaxSplitN == MaxN + 1

\* ------------------------------------------------- program constants (enums)
not_ready == 0
initial_ready == 1
solution_ready == 2
no_solution_ready == 3
terminate == 0
working == 1
master_process == 0

VARIABLES
  \* --- one call of nqueens_by_level and its sequential driver (SpecEnum)
  en,          \* the locals of the running nqueens_by_level call
  sols,        \* SolutionStore::solutions() of nqueens.cpp, a flat sequence
  allsolutions,\* what nqueens(n) returned (<<>> before it returns)
  caller,      \* "nqueens" (the driver), "direct" (a bare call), "none"
  reported,    \* the vectors handed to success_func so far, in call order
  \* --- the MPI run (Spec): the master, rank 0
  param_n,     \* master_main's n
  param_k,     \* master_main's k
  number_of_processes, \* MPI_Comm_size: the master and the workers
  mpc,         \* where master_main stands
  men,         \* the locals of the master's nqueens_by_level call
  next_worker, \* recieve_solution: ready_status.MPI_SOURCE
  worker_ready,\* recieve_solution: the readiness value received
  active_workers, \* ActiveWorkers::active_workers(), unsigned
  msols,       \* the master's SolutionStore::solutions()
  mret,        \* what master_main returned
  current_process, \* the counter of the termination loop
  \* --- the workers, ranks 1..number_of_processes-1
  wpc,         \* where each worker_main stands
  wn, wk,      \* the n and k each worker received
  wpos,        \* each worker's pos buffer
  wsols,       \* each worker's local allsolutions (<<>> outside its scope)
  wstore,      \* each worker's SolutionStore::solutions()
  keep_working,\* each worker's termination flag
  \* --- messages in flight, per worker, in sending order and per tag
  bcastQ,      \* the broadcast (n, k), <<>> until the root has sent it
  readyQ,      \* work_request_tag, worker -> master
  resultQ,     \* result_tag, worker -> master
  workQ,       \* partial_result_tag, master -> worker
  termQ,       \* termination_tag, master -> worker
  aborted,     \* a rank died on a memory fault and the MPI job was killed
  \* --- history, read by the properties only
  dispatched,  \* the partial solutions sent by line 141, in sending order
  assigned,    \* per worker, the partial solutions sent to it and not yet run
  processed,   \* how often each partial solution was run by line 242 (a bag)
  strayed,     \* a worker ran a partial solution that was not sent to it
  credit,      \* per worker, readiness values sent minus partial solutions run
  wlast,       \* per worker, the kind of its last message to the master
  wprev,       \* per worker, the kind of the message before that one
  told,        \* the complete solutions the workers have sent (a set)
  mlast,       \* the last message recieve_solution received
  mprev,       \* the message it received before that one
  signals,     \* solution_ready and no_solution_ready values received so far
  term_sent    \* per worker, the termination messages sent to it

enumVars == <<en, sols, allsolutions, caller, reported>>

masterVars == <<param_n, param_k, number_of_processes, mpc, men, next_worker,
                worker_ready, active_workers, msols, mret, current_process>>

workerVars == <<wpc, wn, wk, wpos, wsols, wstore, keep_working>>

chanVars == <<bcastQ, readyQ, resultQ, workQ, termQ>>

histVars == <<dispatched, assigned, processed, strayed, credit, wlast, wprev,
              told, mlast, mprev, signals, term_sent>>

protoVars == <<masterVars, workerVars, chanVars, aborted, histVars>>

vars == <<enumVars, protoVars>>

\* ---------------------------------------------------------------- helpers
abs(x) == IF x < 0 THEN -x ELSE x

\* a C array / std::vector slice v[0..len-1] as a flat sequence
ToSeq(v, len) == [x \in 1..len |-> v[x - 1]]

\* std::vector<unsigned int>(n, 0) / (n): n zero-initialised entries
ZeroVec(n) == [x \in 0..(n - 1) |-> 0]

\* the flat sequence s cut into consecutive chunks of n entries
Chunks(s, n) == [c \in 1..(Len(s) \div n) |-> SubSeq(s, (c - 1) * n + 1, c * n)]

Range(s) == {s[x] : x \in DOMAIN s}

\* ------------------------------------------------------ nqueens_by_level
\* Lines 66-84: the locals after the set-up.  index is allocated with
\* max_level cells of which only [start_level, max_level) are initialised;
\* the model keeps exactly the initialised cells, so a read of any other
\* cell is visible as a read outside DOMAIN index.
\*   st = "run"   at the top of the while(flag==0) loop
\*        "cb"    vec_out is filled and success_func is about to be called
\*        "oob"   the inner while is about to read index[k] at a cell that
\*                was never initialised or lies outside the allocation
\*        "ret"   returned
\*        "fault" the process died on an access outside its memory
nqueens_by_level_init(pos, start_level, max_level) ==
  [ size        |-> Cardinality(DOMAIN pos),
    start_level |-> start_level,
    max_level   |-> max_level,
    stop_sign   |-> start_level - 1,
    pos         |-> pos,
    index       |-> [x \in start_level..(max_level - 1) |-> 0],
    vec_out     |-> ZeroVec(max_level),
    i           |-> 0,
    j           |-> IF 0 \in DOMAIN pos THEN pos[0] ELSE 0,
    k           |-> start_level,
    flag        |-> 0,
    \* max_level == 0: "k <= max_level-1" compares against UINT_MAX, the
    \* initialising loop never ends and writes past the (empty) allocation.
    \* start_level >= max_level > 0: the first attack check reads
    \* index[start_level], past the allocation.
    \* an empty pos: line 83 reads pos[0] through the null data pointer
    \* of an empty vector.
    st          |-> IF max_level = 0 \/ DOMAIN pos = {} THEN "fault"
                    ELSE IF start_level >= max_level THEN "oob"
                    ELSE "run" ]

\* the condition of line 86 without its diagonal test
AttackCheck_NoDiagonal(e) ==
  ((e.i = e.k) \/ (e.j = e.index[e.k])) /\ (e.i <= e.k - 1)

\* the condition of line 86 without its column test
AttackCheck_NoColumn(e) ==
  ((e.i = e.k) \/ (abs(e.i - e.k) = abs(e.j - e.index[e.k]))) /\ (e.i <= e.k - 1)

\* the condition of line 86 without its conjunct i <= k-1
AttackCheck_NoGuard(e) ==
  (e.i = e.k) \/ (e.j = e.index[e.k]) \/ (abs(e.i - e.k) = abs(e.j - e.index[e.k]))

\* Line 86: the condition "solution is bad"
AttackCheck(e) ==
  ((e.i = e.k) \/ (e.j = e.index[e.k])
      \/ (abs(e.i - e.k) = abs(e.j - e.index[e.k])))
  /\ (e.i <= e.k - 1)

\* Lines 87-92 and 110-115: while(index[k] >= size-1) { k--; if(k<=stop_sign) flag=1; }
\* The loop condition is evaluated again after flag was set, at row k = stop_sign.
RECURSIVE Ascend(_)
Ascend(e) ==
  IF e.k \notin DOMAIN e.index THEN [e EXCEPT !.st = "oob"]
  ELSE IF e.index[e.k] >= e.size - 1
       THEN Ascend([e EXCEPT !.k = e.k - 1,
                             !.flag = IF e.k - 1 <= e.stop_sign THEN 1 ELSE e.flag])
       ELSE e

\* Lines 93-98 and 116-120: what follows the inner while
AfterAscend(e) ==
  IF e.st = "oob" THEN e
  ELSE [e EXCEPT !.index = IF e.flag # 1
                           THEN [e.index EXCEPT ![e.k] = e.index[e.k] + 1]
                           ELSE e.index,
                 !.i = 0,
                 !.j = e.pos[0],
                 !.st = IF e.flag = 0 THEN "run" ELSE "ret"]

NextCandidate(e) == AfterAscend(Ascend(e))

\* Lines 86-133: one iteration of while(flag==0), up to the call of success_func
EnumIter(e) ==
  IF AttackCheck(e) THEN NextCandidate(e)
  ELSE IF e.i >= e.k - 1
       THEN LET p == [e.pos EXCEPT ![e.k] = e.index[e.k]] IN
            IF e.k = e.max_level - 1
            THEN [e EXCEPT !.pos = p,
                           !.vec_out = [x \in 0..(e.max_level - 1) |-> p[x]],
                           !.st = "cb"]
            ELSE [e EXCEPT !.pos = p,
                           !.k = e.k + 1,
                           !.index = [e.index EXCEPT ![e.k + 1] = 0],
                           !.i = 0,
                           !.j = p[0]]
       ELSE [e EXCEPT !.i = e.i + 1, !.j = e.pos[e.i + 1]]

\* a return from success_func that starts the row again at column 0
AfterCallback_Restart(e) ==
  [e EXCEPT !.index = [e.index EXCEPT ![e.k] = 0], !.i = 0, !.j = e.pos[0], !.st = "run"]

\* Lines 110-120: the rest of the iteration once success_func has returned

AfterCallback(e) == NextCandidate([e EXCEPT !.st = "run"])

\* The read of index[k] outside the initialised cells yields an arbitrary
\* int.  In a call with start_level < max_level flag is already 1 here, so
\* the value only decides whether the inner while goes on (k--) or stops
\* (the function then returns); in front of the allocation the read can
\* also fault.  In a call with start_level >= max_level > 0 the garbage
\* steers the whole search, which writes index[max_level] and beyond; it
\* can end only through the inner while (flag = 1, nothing reported) or
\* by a fault.
OobNext(e) ==
  LET stop  == [e EXCEPT !.i = 0, !.j = e.pos[0], !.flag = 1, !.st = "ret"]
      fault == [e EXCEPT !.st = "fault"]
      down  == [e EXCEPT !.k = e.k - 1, !.flag = 1]
  IN  IF e.start_level >= e.max_level THEN {stop, fault}
      ELSE IF e.k >= 0 THEN {stop, down}
      ELSE IF e.k >= -MaxUnderrun THEN {stop, down, fault}
      ELSE {fault}

\* ---------------------------------------------------- SolutionStore
\* a store that keeps the newest vector only
add_solution_Overwrite(store, sol) == sol

\* add_solution: the new vector's entries are appended to the flat store
add_solution(store, sol) == store \o sol

\* ------------------------------------------------------------ SpecEnum
NonAttacking(f, rows) ==
  \A a, b \in rows : a < b => (f[a] # f[b] /\ abs(a - b) # abs(f[a] - f[b]))

\* The boards a call is started on: rows [0, start_level) hold a
\* non-attacking placement, the rows from start_level on hold whatever an
\* earlier use of the buffer left there.
InputBoards(n, start_level) ==
  {b \in [0..(n - 1) -> 0..(n - 1)] :
      /\ NonAttacking(b, 0..(start_level - 1))
      /\ \A r \in start_level..(n - 1) : b[r] = b[n - 1]}

\* the MPI run does not exist in SpecEnum
ProtoIdle ==
  /\ param_n = 0 /\ param_k = 0 /\ number_of_processes = 0
  /\ mpc = "none" /\ men = [st |-> "none"]
  /\ next_worker = 0 /\ worker_ready = not_ready /\ active_workers = 0
  /\ msols = <<>> /\ mret = <<>> /\ current_process = 0
  /\ wpc = <<>> /\ wn = <<>> /\ wk = <<>> /\ wpos = <<>> /\ wsols = <<>>
  /\ wstore = <<>>
  /\ keep_working = <<>>
  /\ bcastQ = <<>> /\ readyQ = <<>> /\ resultQ = <<>> /\ workQ = <<>> /\ termQ = <<>>
  /\ aborted = FALSE
  /\ dispatched = <<>> /\ assigned = <<>> /\ processed = <<>> /\ strayed = FALSE
  /\ credit = <<>> /\ wlast = <<>> /\ wprev = <<>> /\ told = {}
  /\ mlast = <<>> /\ mprev = <<>> /\ signals = 0
  /\ term_sent = <<>>

\* no bare call of the enumerator exists in Spec
EnumIdle ==
  /\ en = [st |-> "none"]
  /\ caller = "none"
  /\ sols = <<>>
  /\ allsolutions = <<>>
  /\ reported = <<>>

InitEnum ==
  /\ ProtoIdle
  /\ sols = <<>>
  /\ allsolutions = <<>>
  /\ reported = <<>>
  /\ \/ \E n \in 1..MaxSeqN :
          /\ caller = "nqueens"
          /\ en = nqueens_by_level_init(ZeroVec(n), 0, n)
     \/ \E n \in 1..MaxN : \E max_level \in 0..n : \E start_level \in 0..max_level :
          \E b \in InputBoards(n, start_level) :
          /\ caller = "direct"
          /\ en = nqueens_by_level_init(b, start_level, max_level)

\* one iteration of while(flag==0), lines 85-134
EnumStep ==
  /\ en.st = "run"
  /\ en' = EnumIter(en)
  /\ UNCHANGED <<sols, allsolutions, caller, reported, protoVars>>

\* success_func(vec_out) with add_solution_callback (lines 109, 163-165),
\* then lines 110-120
EnumCallback ==
  /\ en.st = "cb"
  /\ sols' = add_solution(sols, ToSeq(en.vec_out, en.max_level))
  /\ reported' = Append(reported, ToSeq(en.vec_out, en.max_level))
  /\ en' = AfterCallback(en)
  /\ UNCHANGED <<allsolutions, caller, protoVars>>

\* the inner while reading index[k] at a cell outside the initialised range
EnumUnderrun ==
  /\ en.st = "oob"
  /\ \E e2 \in OobNext(en) : en' = e2
  /\ UNCHANGED <<sols, allsolutions, caller, reported, protoVars>>

\* nqueens(n), lines 172-174: copy the store, clear it, return the copy
NqueensReturn ==
  /\ caller = "nqueens"
  /\ en.st = "ret"
  /\ allsolutions' = sols
  /\ sols' = <<>>
  /\ caller' = "nqueens_returned"
  /\ UNCHANGED <<en, reported, protoVars>>

NextEnum == EnumStep \/ EnumCallback \/ EnumUnderrun \/ NqueensReturn

SpecEnum == InitEnum /\ [][NextEnum]_vars

\* The call runs in one thread that nothing holds up: while the procedure
\* has a next step, it takes it.
FairSpecEnum == InitEnum /\ [][NextEnum]_vars /\ WF_vars(NextEnum)

\* ------------------------------------------------- claims on SpecEnum
\* the placements of rows [0, max_level) that keep the board's rows
\* [0, start_level) and are mutually non-attacking, as flat vectors
ValidExtensions(e) ==
  {ToSeq(f, e.max_level) :
     f \in {g \in [0..(e.max_level - 1) -> 0..(e.size - 1)] :
               /\ \A r \in 0..(e.start_level - 1) : g[r] = e.pos[r]
               /\ NonAttacking(g, 0..(e.max_level - 1))}}

NoDuplicates(s) == \A a, b \in DOMAIN s : a # b => s[a] # s[b]

LexLess(u, v) ==
  \E x \in DOMAIN u : u[x] < v[x] /\ \A y \in 1..(x - 1) : u[y] = v[y]

\* C2: a call with 0 <= start_level < max_level <= n on a board whose rows
\* [0, start_level) are non-attacking hands success_func only non-attacking
\* placements of rows [0, max_level) that extend the given rows, each of
\* max_level entries and none twice, and by the time the search is
\* exhausted it has handed over every one of them.
IsValidExtension(e, v) ==
  /\ Len(v) = e.max_level
  /\ \A x \in 1..Len(v) : v[x] \in 0..(e.size - 1)
  /\ \A r \in 0..(e.start_level - 1) : v[r + 1] = e.pos[r]
  /\ NonAttacking([r \in 0..(Len(v) - 1) |-> v[r + 1]], 0..(Len(v) - 1))

C2_ExactlyTheValidExtensions ==
  (caller = "direct" /\ en.start_level < en.max_level) =>
     /\ NoDuplicates(reported)
     /\ \A x \in DOMAIN reported : IsValidExtension(en, reported[x])
     /\ (en.st \in {"oob", "ret", "fault"} => Range(reported) = ValidExtensions(en))

C2_Witness ==
  /\ caller = "direct"
  /\ en.st = "ret"
  /\ en.start_level >= 1
  /\ en.max_level < en.size
  /\ Len(reported) >= 2

\* the number of solutions of the n-queens problem, n = 1..10
KnownCount(n) == <<1, 0, 0, 2, 10, 4, 40, 92, 352, 724>>[n]

\* C3: the sequential run (start_level = 0, max_level = n, all-zero board)
\* reports exactly the known number of solutions, and nqueens(n) returns a
\* flat sequence of n times that many entries.
C3_KnownSolutionCount ==
  /\ (caller \in {"nqueens", "nqueens_returned"} /\ en.st = "ret")
        => Len(reported) = KnownCount(en.size)
  /\ (caller = "nqueens_returned")
        => Len(allsolutions) = en.size * KnownCount(en.size)

C3_Witness ==
  /\ caller = "nqueens_returned"
  /\ en.size = 4
  /\ allsolutions = <<1, 3, 0, 2, 2, 0, 3, 1>>

\* C4: within one call every reported vector is lexicographically greater
\* than every vector reported before it (stated of the latest vector; every
\* earlier one was the latest in an earlier state).
C4_LexicographicOrder ==
  \A a \in 1..(Len(reported) - 1) : LexLess(reported[a], reported[Len(reported)])

C4_Witness ==
  /\ en.st = "ret"
  /\ Len(reported) >= 2
  /\ en.start_level >= 1

\* =================================================== the MPI run (Spec)
Workers == 1..(number_of_processes - 1)

\* ActiveWorkers: ++ and -- on an unsigned int.  The 32-bit pattern is held
\* as its two's-complement representative in [-2^31, 2^31): 0 - 1 gives
\* the pattern of UINT_MAX, held as -1, and "x > 0" on the unsigned value
\* is "x # 0" on the representative.
Wrap32(x) == IF x > 2147483647 THEN x - 2147483647 - 2147483647 - 2
             ELSE IF x < -2147483647 - 1 THEN x + 2147483647 + 2147483647 + 2
             ELSE x

add_worker(c) == Wrap32(c + 1)

\* a remove_worker that leaves the counter as it is
remove_worker_Keep(c) == c

remove_worker(c) == Wrap32(c - 1)

\* a test that lets the drain loop stop with one worker still counted
UnsignedPositive_AboveOne(c) == c > 1

UnsignedPositive(c) == c # 0

\* a send that always goes to the queue of rank 1
Send_ToFirst(q, rank, msg) == [q EXCEPT ![1] = Append(q[1], msg)]

\* MPI_Send: the message joins the ones already sent to that rank on that tag
Send(q, rank, msg) == [q EXCEPT ![rank] = Append(q[rank], msg)]

\* a receive that leaves the message where it was
Consume_Keep(q, rank) == q

\* a completed receive takes the oldest message of the rank and tag
Consume(q, rank) == [q EXCEPT ![rank] = Tail(q[rank])]

\* up to four loop iterations in a row; a record that is not at the top of
\* the loop is left as it is
Iter(e) == IF e.st = "run" THEN EnumIter(e) ELSE e

FourIters(e) ==
  LET e1 == Iter(e)
      e2 == Iter(e1)
      e3 == Iter(e2)
  IN  Iter(e3)

\* The master's enumerator from where it stands to its next call of
\* master_solution_func, to its return, or to a fault: the records it can
\* stop in.
RECURSIVE RunToCallback(_)
RunToCallback(e) ==
  IF e.st = "run" THEN RunToCallback(FourIters(e))
  ELSE IF e.st = "oob" THEN UNION {RunToCallback(x) : x \in OobNext(e)}
  ELSE {e}

\* A worker's whole enumerator call with worker_solution_func (lines
\* 199-201) as callback: the ways it can end, each with the store it leaves.
RECURSIVE RunWorker(_, _)
RunWorker(e, store) ==
  IF e.st = "run" THEN RunWorker(FourIters(e), store)
  ELSE IF e.st = "cb"
       THEN RunWorker(AfterCallback(e), add_solution(store, ToSeq(e.vec_out, e.max_level)))
  ELSE IF e.st = "oob" THEN UNION {RunWorker(x, store) : x \in OobNext(e)}
  ELSE {[st |-> e.st, store |-> store]}

\* The master's enumerator is a pure function of (n, k) and of where it
\* stands, so its way from the call (line 170) to the first callback and
\* from each callback to the next is worked out once for the parameters
\* n >= 1, 0 <= k <= n; any other call is run on the spot.
MasterEntry(n, k) == RunToCallback(nqueens_by_level_init(ZeroVec(n), 0, k))

RECURSIVE MasterCallbacks(_, _)
MasterCallbacks(frontier, seen) ==
  IF frontier = {} THEN seen
  ELSE LET after == UNION {RunToCallback(AfterCallback(x)) : x \in frontier}
           fresh == {y \in after : y.st = "cb"} \ (seen \cup frontier)
       IN  MasterCallbacks(fresh, seen \cup frontier)

MasterEntryTable ==
  UNION {{[n |-> n, k |-> k, out |-> MasterEntry(n, k)] : k \in 0..n} : n \in 1..MaxSplitN}

MasterResumeTable ==
  {[from |-> x, out |-> RunToCallback(AfterCallback(x))] :
     x \in MasterCallbacks(UNION {{y \in t.out : y.st = "cb"} : t \in MasterEntryTable}, {})}

MasterFirst(n, k) ==
  LET hit == {t \in MasterEntryTable : t.n = n /\ t.k = k}
  IN  IF hit # {} THEN (CHOOSE t \in hit : TRUE).out ELSE MasterEntry(n, k)

MasterResume(e) ==
  LET hit == {t \in MasterResumeTable : t.from = e}
  IN  IF hit # {} THEN (CHOOSE t \in hit : TRUE).out
      ELSE RunToCallback(AfterCallback(e))

\* the ranks before their first statement, for master_main(n, k) under
\* mpirun with W + 1 processes
InitWith(n, k, W) ==
  /\ EnumIdle
  /\ param_n = n
  /\ param_k = k
  /\ number_of_processes = W + 1
  /\ wstore = [w \in 1..W |-> <<>>]
  /\ wpc = [w \in 1..W |-> "start"]
  /\ wn = [w \in 1..W |-> 0]
  /\ wk = [w \in 1..W |-> 0]
  /\ wpos = [w \in 1..W |-> <<>>]
  /\ wsols = [w \in 1..W |-> <<>>]
  /\ keep_working = [w \in 1..W |-> working]
  /\ bcastQ = [w \in 1..W |-> <<>>]
  /\ readyQ = [w \in 1..W |-> <<>>]
  /\ resultQ = [w \in 1..W |-> <<>>]
  /\ workQ = [w \in 1..W |-> <<>>]
  /\ termQ = [w \in 1..W |-> <<>>]
  /\ assigned = [w \in 1..W |-> <<>>]
  /\ credit = [w \in 1..W |-> 0]
  /\ wlast = [w \in 1..W |-> <<"none">>]
  /\ wprev = [w \in 1..W |-> <<"none">>]
  /\ term_sent = [w \in 1..W |-> 0]
  /\ mpc = "start"
  /\ men = [st |-> "none"]
  /\ next_worker = 0
  /\ worker_ready = not_ready
  /\ active_workers = 0
  /\ msols = <<>>
  /\ mret = <<>>
  /\ current_process = 0
  /\ aborted = FALSE
  /\ dispatched = <<>>
  /\ processed = EmptyBag
  /\ strayed = FALSE
  /\ told = {}
  /\ mlast = <<>>
  /\ mprev = <<>>
  /\ signals = 0

\* the parameters the spec admits: n >= 1 and 0 <= k <= n
Init == \E n \in 1..MaxN : \E k \in 0..n : \E W \in 1..MaxW : InitWith(n, k, W)

\* any parameters: also n = 0 and k > n (master_main checks neither)
InitAny ==
  \E n \in 0..MaxN : \E k \in 0..(n + 1) : \E W \in 1..MaxW : InitWith(n, k, W)

\* ---------------------------------------------------------- master_main
\* a master that goes on to line 176 without the loop of line 173
DrainPc_NoDrain(count) == "term"

\* line 173: while(active_workers() > 0) recieve_solution(); then line 176
DrainPc(count) == IF UnsignedPositive(count) THEN "recv" ELSE "term"

\* A rank that dies on a memory fault takes the whole MPI job down: every
\* rank is killed, its memory and the messages in flight are gone.
JobAborts ==
  /\ aborted' = TRUE
  /\ mpc' = "killed"
  /\ men' = [st |-> "none"]
  /\ next_worker' = 0
  /\ worker_ready' = not_ready
  /\ active_workers' = 0
  /\ msols' = <<>>
  /\ mret' = <<>>
  /\ current_process' = 0
  /\ wpc' = [w \in Workers |-> "killed"]
  /\ wn' = [w \in Workers |-> 0]
  /\ wk' = [w \in Workers |-> 0]
  /\ wpos' = [w \in Workers |-> <<>>]
  /\ wsols' = [w \in Workers |-> <<>>]
  /\ wstore' = [w \in Workers |-> <<>>]
  /\ keep_working' = [w \in Workers |-> working]
  /\ bcastQ' = [w \in Workers |-> <<>>]
  /\ readyQ' = [w \in Workers |-> <<>>]
  /\ resultQ' = [w \in Workers |-> <<>>]
  /\ workQ' = [w \in Workers |-> <<>>]
  /\ termQ' = [w \in Workers |-> <<>>]
  /\ dispatched' = <<>>
  /\ assigned' = [w \in Workers |-> <<>>]
  /\ processed' = EmptyBag
  /\ strayed' = FALSE
  /\ credit' = [w \in Workers |-> 0]
  /\ wlast' = [w \in Workers |-> <<"none">>]
  /\ wprev' = [w \in Workers |-> <<"none">>]
  /\ told' = {}
  /\ mlast' = <<>>
  /\ mprev' = <<>>
  /\ signals' = 0
  /\ term_sent' = [w \in Workers |-> 0]
  /\ UNCHANGED <<param_n, param_k, number_of_processes, enumVars>>

\* The master's enumerator has advanced to record x: at its next call of
\* master_solution_func the master blocks in recieve_solution; after its
\* return the drain loop of line 173 follows, with count the value of the
\* counter at that time.
MasterAdvance(x, count) ==
  /\ men' = IF x.st = "cb" THEN x ELSE [st |-> "ret"]
  /\ mpc' = IF x.st = "cb" THEN "recv" ELSE DrainPc(count)
  /\ current_process' = IF x.st = "cb" THEN current_process ELSE 1
  /\ UNCHANGED aborted

\* lines 160-170: broadcast (n, k), reset the counter, allocate pos and
\* enter nqueens_by_level(pos, 0, k, &master_solution_func)
MasterStart ==
  /\ ~aborted
  /\ mpc = "start"
  /\ \E x \in MasterFirst(param_n, param_k) :
       IF x.st = "fault" THEN JobAborts
       ELSE /\ bcastQ' = [w \in Workers |-> <<param_n, param_k>>]
            /\ active_workers' = 0
            /\ MasterAdvance(x, 0)
            /\ UNCHANGED <<param_n, param_k, number_of_processes, next_worker,
                           worker_ready, msols, mret, workerVars,
                           readyQ, resultQ, workQ, termQ, histVars, enumVars>>

\* where recieve_solution returns to: master_solution_func or the drain loop
AfterRecieve(count) == IF men.st = "cb" THEN "send" ELSE DrainPc(count)

\* recieve_solution, lines 93-97 and 111: the any-source receive of a
\* readiness value; a no_solution_ready one is counted off at once
RecieveReady(w) ==
  /\ ~aborted
  /\ mpc = "recv"
  /\ readyQ[w] # <<>>
  /\ LET v == Head(readyQ[w])
         count == IF v = no_solution_ready
                  THEN remove_worker(active_workers) ELSE active_workers
     IN
       /\ worker_ready' = v
       /\ next_worker' = w
       /\ mlast' = <<"ready", w, v>>
       /\ mprev' = mlast
       /\ signals' = IF v \in {solution_ready, no_solution_ready}
                     THEN signals + 1 ELSE signals
       /\ active_workers' = count
       /\ mpc' = IF v = solution_ready THEN "probe" ELSE AfterRecieve(count)
  /\ readyQ' = Consume(readyQ, w)
  /\ UNCHANGED <<param_n, param_k, number_of_processes, men, msols, mret,
                 current_process, workerVars, bcastQ, resultQ, workQ, termQ,
                 aborted, dispatched, assigned, processed, strayed, credit,
                 wlast, wprev, told, term_sent, enumVars>>

\* recieve_solution, lines 100-109: probe and receive the batch of
\* next_worker, append it to the store, count the worker off
RecieveBatch ==
  /\ ~aborted
  /\ mpc = "probe"
  /\ resultQ[next_worker] # <<>>
  /\ LET recieved_solution == Head(resultQ[next_worker]) IN
       /\ msols' = add_solution(msols, recieved_solution)
       /\ mlast' = <<"batch", next_worker, solution_ready>>
       /\ mprev' = mlast
  /\ resultQ' = Consume(resultQ, next_worker)
  /\ active_workers' = remove_worker(active_workers)
  /\ mpc' = AfterRecieve(remove_worker(active_workers))
  /\ UNCHANGED <<param_n, param_k, number_of_processes, men, next_worker,
                 worker_ready, mret, current_process, workerVars,
                 bcastQ, readyQ, workQ, termQ, aborted,
                 dispatched, assigned, processed, strayed, credit,
                 wlast, wprev, told, signals, term_sent, enumVars>>

\* master_solution_func, lines 141-142; the enumerator then goes on from
\* line 110 to its next callback or to its end
MasterDispatch ==
  /\ ~aborted
  /\ mpc = "send"
  /\ Len(dispatched) < MaxUnits
  /\ \E x \in MasterResume(men) :
       IF x.st = "fault" THEN JobAborts
       ELSE LET solution == ToSeq(men.vec_out, men.max_level) IN
            /\ workQ' = Send(workQ, next_worker, solution)
            /\ dispatched' = Append(dispatched, solution)
            /\ assigned' = [assigned EXCEPT ![next_worker] =
                              Append(assigned[next_worker], solution)]
            /\ active_workers' = add_worker(active_workers)
            /\ MasterAdvance(x, add_worker(active_workers))
            /\ UNCHANGED <<param_n, param_k, number_of_processes, next_worker,
                           worker_ready, msols, mret, workerVars,
                           bcastQ, readyQ, resultQ, termQ,
                           processed, strayed, credit, wlast, wprev, told,
                           mlast, mprev, signals, term_sent, enumVars>>

\* lines 179-180: one pass of the termination loop
MasterTerminate ==
  /\ ~aborted
  /\ mpc = "term"
  /\ current_process < number_of_processes
  /\ termQ' = Send(termQ, current_process, terminate)
  /\ term_sent' = [term_sent EXCEPT ![current_process] = term_sent[current_process] + 1]
  /\ current_process' = current_process + 1
  /\ UNCHANGED <<param_n, param_k, number_of_processes, mpc, men, next_worker,
                 worker_ready, active_workers, msols, mret, workerVars,
                 bcastQ, readyQ, resultQ, workQ, aborted,
                 dispatched, assigned, processed, strayed, credit, wlast, wprev,
                 told, mlast, mprev, signals, enumVars>>

\* lines 183-185: copy the store, clear it, return the copy
MasterReturn ==
  /\ ~aborted
  /\ mpc = "term"
  /\ current_process >= number_of_processes
  /\ mret' = msols
  /\ msols' = <<>>
  /\ mpc' = "done"
  /\ UNCHANGED <<param_n, param_k, number_of_processes, men, next_worker,
                 worker_ready, active_workers, current_process, workerVars,
                 chanVars, aborted, histVars, enumVars>>

\* ---------------------------------------------------------- worker_main
\* lines 216-234: receive (n, k), allocate pos, send initial_ready, post
\* the two non-blocking receives
WorkerStart(w) ==
  /\ ~aborted
  /\ wpc[w] = "start"
  /\ bcastQ[w] # <<>>
  /\ wn' = [wn EXCEPT ![w] = bcastQ[w][1]]
  /\ wk' = [wk EXCEPT ![w] = bcastQ[w][2]]
  /\ wpos' = [wpos EXCEPT ![w] = ZeroVec(bcastQ[w][1])]
  /\ readyQ' = Send(readyQ, w, initial_ready)
  /\ credit' = [credit EXCEPT ![w] = credit[w] + 1]
  /\ wlast' = [wlast EXCEPT ![w] = <<"ready", initial_ready>>]
  /\ wprev' = [wprev EXCEPT ![w] = wlast[w]]
  /\ keep_working' = [keep_working EXCEPT ![w] = working]
  /\ wpc' = [wpc EXCEPT ![w] = "loop"]
  /\ UNCHANGED <<masterVars, wsols, wstore, bcastQ, resultQ, workQ, termQ, aborted,
                 dispatched, assigned, processed, strayed, told, mlast, mprev,
                 signals, term_sent, enumVars>>

\* the partial solution of a message written over the front of pos
Recieved(pos, msg) ==
  [r \in DOMAIN pos |-> IF r < Len(msg) THEN msg[r + 1] ELSE pos[r]]

\* a call that passes 0 where line 242 passes k
WorkerCall_FromTop(pos, k, n) == nqueens_by_level_init(pos, 0, n)

\* what the worker hands to nqueens_by_level: its pos buffer (by value), k, n
WorkerCall(pos, k, n) == nqueens_by_level_init(pos, k, n)

\* The enumerator is a pure function of the worker's call, so its outcomes
\* for the calls a run can make (a non-attacking front of k rows over a
\* zeroed buffer) are worked out once; any other call is run on the spot.
WorkerInputs(n, k) ==
  {b \in [0..(n - 1) -> 0..(n - 1)] :
      /\ NonAttacking(b, 0..(k - 1))
      /\ \A r \in k..(n - 1) : b[r] = 0}

RunWorkerTable ==
  UNION {UNION {{[pos |-> b, k |-> k, n |-> n,
                  out |-> RunWorker(WorkerCall(b, k, n), <<>>)] :
                   b \in WorkerInputs(n, k)} : k \in 0..n} : n \in 1..MaxSplitN}

WorkerOutcomes(pos, k, n) ==
  LET hit == {t \in RunWorkerTable : t.pos = pos /\ t.k = k /\ t.n = n}
  IN  IF hit # {} THEN (CHOOSE t \in hit : TRUE).out
      ELSE RunWorker(WorkerCall(pos, k, n), <<>>)

\* line 242 with the store as the worker's last pass left it
WorkerRun(pos, k, n, store) ==
  IF store = <<>> THEN WorkerOutcomes(pos, k, n)
  ELSE RunWorker(WorkerCall(pos, k, n), store)

\* a clear_solutions that clears nothing
clear_solutions_Keep(store) == store

\* SolutionStore::clear_solutions, line 70 (called at line 244)
clear_solutions(store) == <<>>

\* a loop that goes on whatever the flag says
KeepLooping_Forever(flag) == TRUE

\* line 235: while(keep_working == working)
KeepLooping(flag) == flag = working

\* a worker that announces a batch whatever the store holds
ReadyStatus_AlwaysSolution(allsols) == solution_ready

\* lines 247-250 and 253-256: the readiness value that says whether a batch follows
ReadyStatus(allsols) == IF allsols # <<>> THEN solution_ready ELSE no_solution_ready

\* lines 235-250 and 253-260: the loop condition holds, MPI_Test finds the
\* partial solution delivered into pos, the enumerator runs over [k, n),
\* the store is moved into allsolutions and the readiness value is sent;
\* with nothing found the next receive is posted at once.  (A test that
\* finds nothing changes nothing and is not a step.)
WorkerCompute(w) ==
  /\ ~aborted
  /\ wpc[w] = "loop"
  /\ KeepLooping(keep_working[w])
  /\ workQ[w] # <<>>
  /\ LET pos == Recieved(wpos[w], Head(workQ[w])) IN
       \E r \in WorkerRun(pos, wk[w], wn[w], wstore[w]) :
         IF r.st = "fault" THEN JobAborts
         ELSE /\ wpos' = [wpos EXCEPT ![w] = pos]
              /\ workQ' = Consume(workQ, w)
              /\ wsols' = [wsols EXCEPT ![w] = r.store]
              /\ wstore' = [wstore EXCEPT ![w] = clear_solutions(r.store)]
              /\ readyQ' = Send(readyQ, w, ReadyStatus(r.store))
              /\ wpc' = [wpc EXCEPT ![w] = IF r.store # <<>> THEN "batch" ELSE "loop"]
              /\ processed' = processed (+) SetToBag({Head(workQ[w])})
              /\ strayed' = (strayed \/ assigned[w] = <<>>
                                     \/ Head(assigned[w]) # Head(workQ[w]))
              /\ assigned' = [assigned EXCEPT ![w] =
                                IF assigned[w] = <<>> THEN <<>> ELSE Tail(assigned[w])]
              /\ wlast' = [wlast EXCEPT ![w] = <<"ready", ReadyStatus(r.store)>>]
              /\ wprev' = [wprev EXCEPT ![w] = wlast[w]]
              /\ UNCHANGED <<masterVars, wn, wk, keep_working, bcastQ, resultQ,
                             termQ, aborted, dispatched, credit, told, mlast,
                             mprev, signals, term_sent, enumVars>>

\* lines 251 and 260: send the batch, post the next receive
WorkerSendBatch(w) ==
  /\ ~aborted
  /\ wpc[w] = "batch"
  /\ resultQ' = Send(resultQ, w, wsols[w])
  /\ wlast' = [wlast EXCEPT ![w] = <<"batch">>]
  /\ wprev' = [wprev EXCEPT ![w] = wlast[w]]
  /\ told' = told \cup Range(Chunks(wsols[w], wn[w]))
  /\ wsols' = [wsols EXCEPT ![w] = <<>>]
  /\ wpc' = [wpc EXCEPT ![w] = "loop"]
  /\ UNCHANGED <<masterVars, wn, wk, wpos, wstore, keep_working,
                 bcastQ, readyQ, workQ, termQ, aborted,
                 dispatched, assigned, processed, strayed, credit, mlast, mprev,
                 signals, term_sent, enumVars>>

\* line 229: the receive posted on termination_tag completes inside some
\* later MPI call of the worker and writes keep_working
TerminationArrives(w) ==
  /\ ~aborted
  /\ wpc[w] \in {"loop", "batch"}
  /\ keep_working[w] = working
  /\ termQ[w] # <<>>
  /\ keep_working' = [keep_working EXCEPT ![w] = Head(termQ[w])]
  /\ termQ' = Consume(termQ, w)
  /\ UNCHANGED <<masterVars, wpc, wn, wk, wpos, wsols, wstore,
                 bcastQ, readyQ, resultQ, workQ, aborted, histVars, enumVars>>

\* lines 235 and 263: the loop condition fails, the work request is freed
WorkerExit(w) ==
  /\ ~aborted
  /\ wpc[w] = "loop"
  /\ ~KeepLooping(keep_working[w])
  /\ wpc' = [wpc EXCEPT ![w] = "terminated"]
  /\ UNCHANGED <<masterVars, wn, wk, wpos, wsols, wstore, keep_working,
                 chanVars, aborted, histVars, enumVars>>

Next ==
  \/ MasterStart
  \/ \E w \in Workers : RecieveReady(w)
  \/ RecieveBatch
  \/ MasterDispatch
  \/ MasterTerminate
  \/ MasterReturn
  \/ \E w \in Workers : WorkerStart(w)
  \/ \E w \in Workers : WorkerCompute(w)
  \/ \E w \in Workers : WorkerSendBatch(w)
  \/ \E w \in Workers : TerminationArrives(w)
  \/ \E w \in Workers : WorkerExit(w)

Spec == Init /\ [][Next]_vars

\* the same run started with any parameters
SpecAny == InitAny /\ [][Next]_vars

\* the runs with a split inside the board, 1 <= k < n, up to MaxSplitN
InitSplit ==
  \E n \in 2..MaxSplitN : \E k \in 1..(n - 1) : \E W \in 1..MaxW : InitWith(n, k, W)

SpecSplit == InitSplit /\ [][Next]_vars

\* The steps of one process.  Each rank is a process of its own that runs
\* whenever it can, and MPI delivers what was sent: a step that stays
\* possible is taken.
MasterStep ==
  \/ MasterStart
  \/ \E w \in Workers : RecieveReady(w)
  \/ RecieveBatch
  \/ MasterDispatch
  \/ MasterTerminate
  \/ MasterReturn

WorkerStep(w) ==
  /\ w \in Workers
  /\ \/ WorkerStart(w)
     \/ WorkerCompute(w)
     \/ WorkerSendBatch(w)
     \/ TerminationArrives(w)
     \/ WorkerExit(w)

FairSpec ==
  /\ Init
  /\ [][Next]_vars
  /\ WF_vars(MasterStep)
  /\ \A w \in 1..MaxW : WF_vars(WorkerStep(w))

\* --------------------------------------------------- claims on Spec
\* the non-attacking placements of the first rows rows of an n x n board
PlacementsOf(n, rows) ==
  {ToSeq(f, rows) : f \in {g \in [0..(rows - 1) -> 0..(n - 1)] :
                              NonAttacking(g, 0..(rows - 1))}}

PlacementsTable ==
  UNION {{[n |-> n, rows |-> rows, set |-> PlacementsOf(n, rows)] :
            rows \in 0..n} : n \in 1..MaxSplitN}

ValidPlacements(n, rows) ==
  (CHOOSE t \in PlacementsTable : t.n = n /\ t.rows = rows).set

\* nqueens(n) of nqueens.cpp, lines 169-175: the store the sequential run
\* leaves when it returns
nqueens(n) ==
  (CHOOSE r \in RunWorker(nqueens_by_level_init(ZeroVec(n), 0, n), <<>>) :
      r.st = "ret").store

SequentialTable == {<<n, Range(Chunks(nqueens(n), n))>> : n \in 1..MaxN}

SequentialSolutions(n) == (CHOOSE t \in SequentialTable : t[1] = n)[2]

EnumerationReturned == men.st = "ret"

\* C1: whatever n >= 1, 0 <= k <= n, W >= 1 and the order of deliveries,
\* the sequence master_main returns, cut into chunks of n, is as a set the
\* set of solutions the sequential nqueens(n) produces.
C1_SameSetAsSequential ==
  mpc = "done" => Range(Chunks(mret, param_n)) = SequentialSolutions(param_n)

\* C5: with 1 <= k < n the master sends out one work unit for each
\* non-attacking placement of rows [0, k) and nothing else; for n = 4,
\* k = 1 these are [0], [1], [2], [3], and the solutions the workers send
\* back are, taken together, [1,3,0,2] and [2,0,3,1].
C5_OneUnitPerValidPrefix ==
  (param_k >= 1 /\ param_k < param_n) =>
     /\ NoDuplicates(dispatched)
     /\ Range(dispatched) \subseteq ValidPlacements(param_n, param_k)
     /\ \A w \in Workers : \A x \in DOMAIN workQ[w] : workQ[w][x] \in Range(dispatched)
     /\ EnumerationReturned =>
           Range(dispatched) = ValidPlacements(param_n, param_k)
     /\ told \subseteq ValidPlacements(param_n, param_n)
     /\ mpc = "done" => told = ValidPlacements(param_n, param_n)
     /\ (param_n = 4 /\ param_k = 1) =>
           /\ EnumerationReturned => dispatched = << <<0>>, <<1>>, <<2>>, <<3>> >>
           /\ mpc = "done" => told = {<<1, 3, 0, 2>>, <<2, 0, 3, 1>>}

C5_Witness ==
  /\ param_n = 4 /\ param_k = 1 /\ number_of_processes = 3
  /\ mpc = "done"
  /\ dispatched = << <<0>>, <<1>>, <<2>>, <<3>> >>
  /\ told = {<<1, 3, 0, 2>>, <<2, 0, 3, 1>>}
  /\ \A w \in Workers : wpos[w] # ZeroVec(4)

\* C6 as claimed: the counter never wraps below 0, never exceeds the number
\* of workers, and in every state equals the number of work units sent out
\* whose worker's solution_ready or no_solution_ready value the master has
\* not yet received.
C6_CountIsUnitsNotYetSignalled ==
  /\ active_workers >= 0
  /\ active_workers <= Cardinality(Workers)
  /\ active_workers = Len(dispatched) - signals

\* C6, amended: the counter never wraps below 0, never exceeds the number
\* of workers, and in every state equals the number of work units sent out
\* whose report the master has not finished receiving; a solution_ready
\* report is finished only when its batch has been read (lines 97-109), so
\* in between the unit still counts.  initial_ready values are not counted
\* in signals, so the equation also says that receiving one changes nothing.
C6_CountIsUnitsNotYetReported ==
  /\ active_workers >= 0
  /\ active_workers <= Cardinality(Workers)
  /\ active_workers = Len(dispatched) - signals + (IF mpc = "probe" THEN 1 ELSE 0)

C6_Witness ==
  /\ mpc = "probe"
  /\ active_workers = 2
  /\ Len(dispatched) - signals = 1
  /\ mprev[1] = "ready" /\ mprev[3] = initial_ready

\* C7: every partial solution the master's callback gets is sent once, and
\* is run once by the worker it was sent to: at any time a unit sent out
\* is either still on its way to its worker or has been run exactly once,
\* and when the master is through, all of them have been run.
C7_EachUnitRunOnce ==
  /\ NoDuplicates(dispatched)
  /\ ~strayed
  /\ \A p \in BagToSet(processed) : processed[p] = 1 /\ p \in Range(dispatched)
  /\ \A w \in Workers : assigned[w] = workQ[w]
  /\ \A x \in DOMAIN dispatched :
        \/ dispatched[x] \in BagToSet(processed)
        \/ \E w \in Workers : dispatched[x] \in Range(workQ[w])
  /\ (EnumerationReturned /\ mpc \in {"term", "done"}) =>
        /\ Range(dispatched) = ValidPlacements(param_n, param_k)
        /\ BagToSet(processed) = Range(dispatched)

C7_Witness ==
  /\ mpc = "done"
  /\ number_of_processes = 3
  /\ Len(dispatched) = 6
  /\ BagCardinality(processed) = 6
  /\ wpos[1] # wpos[2]

C9_ReadinessBeforeBatch ==
  /\ \A w \in Workers :
        /\ credit[w] >= 0
        /\ wpc[w] = "batch" <=> wlast[w] = <<"ready", solution_ready>>
        /\ wpc[w] = "batch" <=> wsols[w] # <<>>
        /\ wlast[w] = <<"batch">> => wprev[w] = <<"ready", solution_ready>>
        /\ wprev[w] = <<"ready", solution_ready>> => wlast[w] = <<"batch">>
        /\ Len(resultQ[w]) <= Len(readyQ[w]) + (IF mpc = "probe" /\ next_worker = w THEN 1 ELSE 0)
  /\ mpc = "probe" =>
        /\ worker_ready = solution_ready
        /\ mlast = <<"ready", next_worker, solution_ready>>
  /\ (mlast # <<>> /\ mlast[1] = "batch") =>
        mprev = <<"ready", mlast[2], solution_ready>>

C9_Witness ==
  /\ number_of_processes = 3
  /\ wlast[1] = <<"batch">>
  /\ wlast[2] = <<"ready", no_solution_ready>>
  /\ mlast # <<>> /\ mlast[1] = "batch"

\* C10: with 1 <= k < n every batch on its way to the master has a length
\* that is a positive multiple of n and consists of complete solutions with
\* entries in [0, n), and no solution occurs twice in what the master has
\* gathered or returns.
IsBatch(b, n) ==
  /\ Len(b) > 0
  /\ Len(b) % n = 0
  /\ \A x \in DOMAIN b : b[x] \in 0..(n - 1)
  /\ Range(Chunks(b, n)) \subseteq ValidPlacements(n, n)

C10_BatchesWellFormedAndDisjoint ==
  (param_k >= 1 /\ param_k < param_n) =>
     /\ \A w \in Workers : \A x \in DOMAIN resultQ[w] : IsBatch(resultQ[w][x], param_n)
     /\ msols # <<>> => IsBatch(msols, param_n)
     /\ NoDuplicates(Chunks(msols, param_n))
     /\ NoDuplicates(Chunks(mret, param_n))

C10_Witness ==
  /\ param_n = 4 /\ param_k = 2
  /\ mlast # <<>> /\ mlast[1] = "batch"
  /\ Len(msols) = 8
  /\ \E w \in Workers : w # mlast[2] /\ wlast[w] = <<"batch">>

\* ------------------------------------------------ claims on FairSpec
\* the master's enumeration yields no more units than MaxUnits lets it send
UnitsFit == Cardinality(ValidPlacements(param_n, param_k)) <= MaxUnits

SplitInside == param_k >= 1 /\ param_k < param_n

\* C11: with 1 <= k < n, messages delivered and every process scheduled
\* fairly, master_main eventually returns.
C11_MasterReturns ==
  (SplitInside /\ UnitsFit) => <>(mpc = "done")

\* C11, the part that does hold: the master never waits forever for a
\* readiness value or a batch; it returns unless a rank dies on the read of
\* index[k] below the initialised cells and the job is killed.
C11_ReturnsUnlessKilled ==
  (SplitInside /\ UnitsFit) => <>(mpc = "done" \/ aborted)

C13_OneEmptyUnit ==
  param_k = 0 =>
     /\ ~aborted
     /\ Len(dispatched) <= 1
     /\ Range(dispatched) \subseteq {<<>>}
     /\ mpc = "done" =>
           /\ dispatched = << <<>> >>
           /\ Range(Chunks(mret, param_n)) = SequentialSolutions(param_n)

\* C14: with k = n the master sends no unit, no worker runs the enumerator
\* with start_level = max_level = n, and what master_main returns is the
\* full set of solutions.
C14_NoUnitAtFullDepth ==
  param_k = param_n =>
     /\ dispatched = <<>>
     /\ processed = EmptyBag
     /\ mpc = "done" =>
           Range(Chunks(mret, param_n)) = SequentialSolutions(param_n)

\* ------------------------------------------------- claims on SpecAny
\* C15: master_main called with k > n or with n = 0 sends neither the
\* broadcast of (n, k) nor any partial solution.
C15_BadParametersRejected ==
  (param_k > param_n \/ param_n = 0) =>
     /\ \A w \in Workers : bcastQ[w] = <<>> /\ wpc[w] \in {"start", "killed"}
     /\ dispatched = <<>>
     /\ mpc \in {"start", "killed"}

\* ---------------------------------------- further claims on Spec
\* C16: the master's store grows only by a received batch put whole at its
\* end, the batch being the oldest one its sender has in flight; a worker
\* never has two batches in flight, so its batches cannot pass each other;
\* and what master_main returns is the store as it stands, so the result is
\* the batches in the order of their receipt, none changed, split or lost.
C16_BatchesInOrderOfReceipt ==
  [][/\ msols' # msols =>
          \/ /\ mpc = "probe"
             /\ resultQ[next_worker] # <<>>
             /\ msols' = msols \o Head(resultQ[next_worker])
             /\ resultQ'[next_worker] = Tail(resultQ[next_worker])
          \/ /\ mpc' = "done"
             /\ mret' = msols
          \/ aborted'
     /\ mret' # mret => (mpc' = "done" /\ mret' = msols)
     /\ \A w \in Workers :
          /\ Len(resultQ'[w]) <= 1
          /\ resultQ'[w] # resultQ[w] =>
                \/ /\ resultQ[w] # <<>>
                   /\ resultQ'[w] = Tail(resultQ[w])
                   /\ msols' = msols \o Head(resultQ[w])
                \/ resultQ[w] = <<>> /\ resultQ'[w] = <<wsols[w]>>
                \/ aborted'
    ]_vars

C16_Witness ==
  /\ mpc = "done"
  /\ number_of_processes = 3
  /\ param_n = 4
  /\ mret = <<2, 0, 3, 1, 1, 3, 0, 2>>

\* --------------------------------------------- further claims on SpecEnum
\* C17: in a call with 0 <= start_level < max_level <= n the cursor array
\* is only ever read or written at rows start_level <= k < max_level: the
\* call never stands before a read of index[k] at a row outside the cells
\* it initialised, and never dies on such a read.
C17_CursorStaysInRange ==
  (en.st # "none" /\ en.start_level < en.max_level) =>
     /\ en.st \notin {"oob", "fault"}
     /\ en.k \in DOMAIN en.index

\* ---------------------------------------- further claims on Spec
TerminationBegun == \E w \in Workers : term_sent[w] > 0

MasterHolds(w) == mpc \in {"probe", "send"} /\ next_worker = w

\* C19: the master sends a unit to w only right after it received a
\* readiness value (and the batch, if one was announced) from w, and w
\* sends one readiness value when it starts and one after each unit it
\* ran; so a worker never has more than one unit on its way to it, and
\* while one is on its way the worker has no readiness value in flight or
\* in the master's hands: the buffer posted at lines 234/260 receives the
\* next unit only after the last one was run.
C19_OneUnitOutstanding ==
  /\ \A w \in Workers :
        /\ Len(workQ[w]) <= 1
        /\ Len(workQ[w]) + Len(readyQ[w]) + (IF MasterHolds(w) THEN 1 ELSE 0) <= 1
        /\ workQ[w] # <<>> => (wpc[w] = "loop" /\ wsols[w] = <<>>)
        /\ credit[w] = (IF wpc[w] \in {"start", "killed"} THEN 0 ELSE 1)
  /\ mpc = "send" =>
        /\ next_worker \in Workers
        /\ mlast[2] = next_worker
        /\ mlast[1] = "batch" \/ mlast[3] \in {initial_ready, no_solution_ready}

C19_Witness ==
  /\ number_of_processes = 3
  /\ Len(workQ[1]) = 1 /\ Len(workQ[2]) = 1
  /\ wlast[1] = <<"batch">> /\ wlast[2] = <<"ready", no_solution_ready>>
  /\ Len(dispatched) >= 4

\* ------------------------------------------------ claims on SpecSplit
\* the complete solutions whose first entries are P
Extensions(n, P) ==
  {s \in ValidPlacements(n, n) : SubSeq(s, 1, Len(P)) = P}

\* the members of S one after the other, in lexicographic order
RECURSIVE LexSorted(_)
LexSorted(S) ==
  IF S = {} THEN <<>>
  ELSE LET first == CHOOSE u \in S : \A v \in S \ {u} : LexLess(u, v)
       IN  first \o LexSorted(S \ {first})

BatchTable ==
  UNION {UNION {{[n |-> n, P |-> P, batch |-> LexSorted(Extensions(n, P))] :
                   P \in ValidPlacements(n, k)} : k \in 1..(n - 1)} : n \in 2..MaxSplitN}

BatchOf(n, P) == (CHOOSE t \in BatchTable : t.n = n /\ t.P = P).batch

\* C20: in the runs with 1 <= k < n the store of a worker is empty
\* whenever it starts on a unit, so what the worker moves into allsolutions after the unit P,
\* and sends as its batch, is exactly the complete solutions that start
\* with P, in lexicographic order; where there is none, it reports
\* no_solution_ready.
C20_BatchIsExtensionsOfUnit ==
  \A w \in Workers :
     /\ wstore[w] = <<>>
     /\ wpc[w] \in {"loop", "batch"} /\ wlast[w] # <<"ready", initial_ready>> =>
          LET P == ToSeq(wpos[w], wk[w]) IN
          /\ wpc[w] = "batch" => wsols[w] # <<>> /\ wsols[w] = BatchOf(wn[w], P)
          /\ \A x \in DOMAIN resultQ[w] : resultQ[w][x] = BatchOf(wn[w], P)
          /\ wlast[w] = <<"ready", solution_ready>> => wpc[w] = "batch"
          /\ wlast[w] = <<"ready", no_solution_ready>> => BatchOf(wn[w], P) = <<>>
          /\ wlast[w] = <<"batch">> => BatchOf(wn[w], P) # <<>>

\* a worker about to send the two solutions of its second unit, after it
\* sent the two of its first
C20_Witness ==
  /\ param_n = 5 /\ param_k = 1 /\ number_of_processes = 2
  /\ wpc[1] = "batch"
  /\ wsols[1] = <<1, 3, 0, 2, 4, 1, 4, 2, 0, 3>>
  /\ told = {<<0, 2, 4, 1, 3>>, <<0, 3, 1, 4, 2>>}

\* --------------------------------------------- claims on FairSpecEnum
\* a call within the precondition 0 <= start_level < max_level <= n
ValidCall == caller = "direct" /\ en.start_level < en.max_level

\* C21: a call with 0 <= start_level < max_level <= n on a board whose
\* rows [0, start_level) are non-attacking ends: after finitely many
\* iterations the search ascends past start_level, flag is set and the
\* procedure returns.
C21_EnumeratorReturns ==
  ValidCall => <>(en.st = "ret")

\* C21, the part that does hold: the search always comes to set flag, and
\* the call then returns unless it dies on the read of index[k] below the
\* initialised cells.
C21_ReturnsUnlessFault ==
  ValidCall => <>(en.flag = 1 /\ en.st \in {"ret", "fault"})

\* ------------------------------------------- the clause i == k (SpecEnum)
\* the condition of line 86 with the clause i == k taken out
AttackCheckWithoutSelf(e) ==
  ((e.j = e.index[e.k]) \/ (abs(e.i - e.k) = abs(e.j - e.index[e.k])))
  /\ (e.i <= e.k - 1)

\* C22: wherever a call (0 <= start_level < max_level <= n) stands at the
\* attack check, i lies in [0, k] and k at an initialised row; with
\* i <= k-1 the clause i == k is false, and i == k holds only with the
\* conjunct i <= k-1 false (at row 0).  The check has the same value with
\* and without the clause, so every iteration, and with it the sequence of
\* reported solutions, is the same without it.
C22_SelfClauseNeverDecides ==
  en.st = "run" =>
     /\ en.k \in DOMAIN en.index
     /\ en.i \in 0..en.k
     /\ en.i <= en.k - 1 => en.i # en.k
     /\ en.i = en.k => (en.k = 0 /\ ~(en.i <= en.k - 1) /\ ~AttackCheck(en))
     /\ AttackCheck(en) = AttackCheckWithoutSelf(en)

\* the check stands at row 0 with i == k after solutions were reported,
\* in a call on a board of four rows or more
C22_Witness ==
  /\ en.st = "run"
  /\ en.i = en.k
  /\ en.size >= 4
  /\ Len(reported) >= 1

====
